---- MODULE Spec2Model ----
(***************************************************************************)
(* Model of the Instagram reels scraper: the TTL cache                     *)
(* (cache_manager.py), the proxy pool and the single-item fetch loop       *)
(* (main.py, scrape_instagram_reel), and the browser-driven feed crawler   *)
(* (scraper.py, InstagramScraper).                                         *)
(*                                                                         *)
(* Each component has its own specification over the same variables; a     *)
(* specification leaves the other components' variables unchanged.         *)
(***************************************************************************)
EXTENDS Integers, Sequences, FiniteSets, TLC

VARIABLES
    \* ---- cache_manager.py
    cache,        \* InMemoryCache.cache: a dict, key -> CacheEntry
    now,          \* the value time.time() returns
    cacheOp,      \* the last cache operation: its arguments, what it saw and returned
    lock,         \* InMemoryCache.lock: the thread holding it, or None
    thread,       \* the threads calling the cache: their position in a method
    \* ---- main.py, scrape_instagram_reel
    pool,         \* scrape_instagram_reel._proxy_pool: a list of proxies
    last_proxy,   \* scrape_instagram_reel._last_proxy
    evicted,      \* the proxies remove_bad_proxy has been called with
    nextLog,      \* the last get_next_proxy call: what it saw and returned
    task,         \* the running scrape_instagram_reel calls
    \* ---- scraper.py
    scroll,       \* one _smart_scroll call: its locals and what it observed
    cls,          \* one _check_account_status call: the page it saw, its result
    browser,      \* InstagramScraper.browser: launched or not
    graphql_data, \* InstagramScraper.graphql_data: the response buffer
    crawl,        \* one InstagramScraper.scrape_reels call
    other         \* a second scrape_reels call on the same scraper has its tab open

cacheVars == <<cache, now, cacheOp>>
proxyVars == <<pool, last_proxy, evicted, nextLog>>
fetchVars == <<pool, last_proxy, evicted, nextLog, task>>
crawlVars == <<browser, graphql_data, crawl, other>>
threadVars == <<lock, thread>>

vars == <<cache, now, cacheOp, lock, thread, pool, last_proxy, evicted, nextLog, task,
          scroll, cls, browser, graphql_data, crawl, other>>

\* what each component's actions leave alone
notCache == <<threadVars, fetchVars, scroll, cls, crawlVars>>
notFetch == <<cacheVars, threadVars, scroll, cls, crawlVars>>
notScroll == <<cacheVars, threadVars, fetchVars, cls, crawlVars>>
notCls == <<cacheVars, threadVars, fetchVars, scroll, crawlVars>>
notCrawl == <<cacheVars, threadVars, fetchVars, scroll, cls>>
notThreads == <<cacheOp, fetchVars, scroll, cls, crawlVars>>

\* Python's None, as a returned value.
None == "None"

(***************************************************************************)
(* cache_manager.py                                                        *)
(***************************************************************************)

\* Largest clock value the model reaches.
MaxTime == 3
\* Largest TTL passed to set().
MaxTTL == 2

\* InMemoryCache(default_ttl): a constructor parameter (300 in the source),
\* modelled on the same scale as the clock.
default_ttl == 1

\* Cache keys: the item key and the rate-limit key of shortcode s1.
ItemKey(shortcode) == <<"item", shortcode>>
RateKey(shortcode) == <<"rateLimit", shortcode>>
Keys == {ItemKey("s1"), RateKey("s1")}
Values == {"reel_s1", "flag"}
TTLs == 0..MaxTTL

\* CacheEntry.__init__
CacheEntry(data, ttl_seconds, t) ==
    [data |-> data, created_at |-> t, ttl_seconds |-> ttl_seconds]

is_expired_ge(entry, t) == (t - entry.created_at) >= entry.ttl_seconds

\* CacheEntry.is_expired, evaluated when time.time() returns t
is_expired(entry, t) == (t - entry.created_at) > entry.ttl_seconds

\* the entry a key holds, as a sequence of zero or one entries
EntryOf(c, key) == IF key \in DOMAIN c THEN <<c[key]>> ELSE <<>>

\* del self.cache[key]
DictDel(c, key) == [k \in (DOMAIN c) \ {key} |-> c[k]]

\* self.cache[key] = entry
DictPut(c, key, entry) == [k \in (DOMAIN c) \cup {key} |-> IF k = key THEN entry ELSE c[k]]

GetResult_IgnoresExpiry(c, key, t) ==
    IF key \notin DOMAIN c THEN None ELSE c[key].data

\* InMemoryCache.get: the value returned
GetResult(c, key, t) ==
    IF key \notin DOMAIN c THEN None
    ELSE IF is_expired(c[key], t) THEN None
    ELSE c[key].data

\* InMemoryCache.get: the store afterwards
GetStore(c, key, t) ==
    IF key \in DOMAIN c /\ is_expired(c[key], t) THEN DictDel(c, key) ELSE c

InMemoryCache_get(key) ==
    /\ cache' = GetStore(cache, key, now)
    /\ cacheOp' = [op |-> "get", key |-> key, at |-> now,
                   pre |-> EntryOf(cache, key), ret |-> GetResult(cache, key, now)]
    /\ UNCHANGED now
    /\ UNCHANGED notCache

InMemoryCache_set(key, data, given, ttl_seconds) ==
    LET ttl == IF given THEN ttl_seconds ELSE default_ttl
    IN  /\ cache' = DictPut(cache, key, CacheEntry(data, ttl, now))
        /\ cacheOp' = [op |-> "set", key |-> key, at |-> now,
                       pre |-> EntryOf(cache, key), ret |-> None]
        /\ UNCHANGED now
        /\ UNCHANGED notCache

InMemoryCache_delete(key) ==
    /\ cache' = IF key \in DOMAIN cache THEN DictDel(cache, key) ELSE cache
    /\ cacheOp' = [op |-> "delete", key |-> key, at |-> now,
                   pre |-> EntryOf(cache, key), ret |-> (key \in DOMAIN cache)]
    /\ UNCHANGED now
    /\ UNCHANGED notCache

InMemoryCache_clear ==
    /\ cache' = [k \in {} |-> None]
    /\ cacheOp' = [op |-> "clear", key |-> None, at |-> now, pre |-> <<>>, ret |-> None]
    /\ UNCHANGED now
    /\ UNCHANGED notCache

ExpiredKeys_All(c, t) == DOMAIN c

ExpiredKeys(c, t) == {k \in DOMAIN c : is_expired(c[k], t)}

InMemoryCache_get_stats ==
    /\ cacheOp' = [op |-> "stats", key |-> None, at |-> now, pre |-> <<>>,
                   ret |-> [total_entries |-> Cardinality(DOMAIN cache),
                            expired_entries |-> Cardinality(ExpiredKeys(cache, now)),
                            active_entries |-> Cardinality(DOMAIN cache)
                                               - Cardinality(ExpiredKeys(cache, now)),
                            default_ttl |-> default_ttl]]
    /\ UNCHANGED <<cache, now>>
    /\ UNCHANGED notCache

InMemoryCache_cleanup_expired ==
    /\ cache' = [k \in (DOMAIN cache) \ ExpiredKeys(cache, now) |-> cache[k]]
    /\ cacheOp' = [op |-> "cleanup", key |-> None, at |-> now, pre |-> <<>>,
                   ret |-> Cardinality(ExpiredKeys(cache, now))]
    /\ UNCHANGED now
    /\ UNCHANGED notCache

\* time passes between two calls
Tick ==
    /\ now < MaxTime
    /\ now' = now + 1
    /\ UNCHANGED <<cache, cacheOp>>
    /\ UNCHANGED notCache

NoOp == [op |-> "none", key |-> None, at |-> 0, pre |-> <<>>, ret |-> None]

CacheInit ==
    /\ cache = [k \in {} |-> None]
    /\ now = 0
    /\ cacheOp = NoOp

CacheNext ==
    \/ \E key \in Keys : InMemoryCache_get(key)
    \/ \E key \in Keys, data \in Values, given \in BOOLEAN, ttl \in TTLs :
          InMemoryCache_set(key, data, given, ttl)
    \/ \E key \in Keys : InMemoryCache_delete(key)
    \/ InMemoryCache_clear
    \/ InMemoryCache_get_stats
    \/ InMemoryCache_cleanup_expired
    \/ Tick

(***************************************************************************)
(* cache_manager.py: the cache methods called from several threads, each   *)
(* method body split at the points where another thread could run          *)
(***************************************************************************)

Threads == {"th1", "th2"}

\* The calls a thread makes.
ThreadCalls ==
    {[op |-> "get", key |-> k, data |-> None, ttl |-> 0] : k \in Keys}
    \cup {[op |-> "set", key |-> k, data |-> "reel_s1", ttl |-> t] : k \in Keys, t \in TTLs}
    \cup {[op |-> "delete", key |-> k, data |-> None, ttl |-> 0] : k \in Keys}
    \cup {[op |-> o, key |-> <<>>, data |-> None, ttl |-> 0] :
            o \in {"clear", "stats", "cleanup"}}

NoCall == [op |-> "none", key |-> <<>>, data |-> None, ttl |-> 0]

\* what a method returns when nothing runs between its first and last line
AtomicRet(call, c, t) ==
    CASE call.op = "get" -> GetResult(c, call.key, t)
      [] call.op = "set" -> None
      [] call.op = "delete" -> call.key \in DOMAIN c
      [] call.op = "clear" -> None
      [] call.op = "stats" ->
            [total_entries |-> Cardinality(DOMAIN c),
             expired_entries |-> Cardinality(ExpiredKeys(c, t)),
             active_entries |-> Cardinality(DOMAIN c) - Cardinality(ExpiredKeys(c, t))]
      [] call.op = "cleanup" -> Cardinality(ExpiredKeys(c, t))

\* the store it leaves then
AtomicStore(call, c, t) ==
    CASE call.op = "get" -> GetStore(c, call.key, t)
      [] call.op = "set" -> DictPut(c, call.key, CacheEntry(call.data, call.ttl, t))
      [] call.op = "delete" -> IF call.key \in DOMAIN c THEN DictDel(c, call.key) ELSE c
      [] call.op = "clear" -> [k \in {} |-> None]
      [] call.op = "stats" -> c
      [] call.op = "cleanup" -> [k \in (DOMAIN c) \ ExpiredKeys(c, t) |-> c[k]]

IdleThread ==
    [pc |-> "idle", call |-> NoCall,
     entry |-> <<>>,     \* get: entry = self.cache.get(key)
     total |-> 0,        \* get_stats: total_entries; clear: count
     keys |-> {},        \* cleanup_expired: the expired_keys not deleted yet
     removed |-> 0,      \* cleanup_expired: len(expired_keys)
     ret |-> None, err |-> None,
     store |-> <<>>,     \* the store and the value an atomic method would give
     value |-> None,
     ok |-> TRUE]

Acquire_NoLock(l, th) == TRUE

\* with self.lock: the RLock is free, or held by the thread itself
Acquire(l, th) == l = None \/ l = th

FirstStep(op) ==
    CASE op = "get" -> "get_read"
      [] op = "set" -> "set_write"
      [] op = "delete" -> "delete_check"
      [] op = "clear" -> "clear_count"
      [] op = "stats" -> "stats_total"
      [] op = "cleanup" -> "cleanup_scan"

\* a thread enters a method and takes the lock
thread_call(th, call) ==
    /\ thread[th].pc = "idle"
    /\ Acquire(lock, th)
    /\ lock' = th
    /\ thread' = [thread EXCEPT ![th] =
            [IdleThread EXCEPT !.pc = FirstStep(call.op), !.call = call,
                               !.store = <<AtomicStore(call, cache, now)>>,
                               !.value = AtomicRet(call, cache, now)]]
    /\ UNCHANGED <<cache, now>>
    /\ UNCHANGED notThreads

\* the thread's next step leaves the with block, returning ret
Leave(t, ret) == [t EXCEPT !.pc = "release", !.ret = ret]
\* ... or raising
Throw(t, err) == [t EXCEPT !.pc = "release", !.err = err]

\* the step of the method a thread is in: <<the thread, the store>> afterwards
Step(t, c, time) ==
    LET key == t.call.key
    IN  CASE t.pc = "get_read" ->
                 IF key \notin DOMAIN c THEN <<Leave(t, None), c>>
                 ELSE <<[t EXCEPT !.pc = "get_expired", !.entry = <<c[key]>>], c>>
          [] t.pc = "get_expired" ->
                 IF is_expired(t.entry[1], time)
                 THEN <<[t EXCEPT !.pc = "get_del"], c>>
                 ELSE <<Leave(t, t.entry[1].data), c>>
          [] t.pc = "get_del" ->
                 IF key \in DOMAIN c THEN <<Leave(t, None), DictDel(c, key)>>
                 ELSE <<Throw(t, "KeyError"), c>>
          [] t.pc = "set_write" ->
                 <<Leave(t, None), DictPut(c, key, CacheEntry(t.call.data, t.call.ttl, time))>>
          [] t.pc = "delete_check" ->
                 IF key \in DOMAIN c THEN <<[t EXCEPT !.pc = "delete_del"], c>>
                 ELSE <<Leave(t, FALSE), c>>
          [] t.pc = "delete_del" ->
                 IF key \in DOMAIN c THEN <<Leave(t, TRUE), DictDel(c, key)>>
                 ELSE <<Throw(t, "KeyError"), c>>
          [] t.pc = "clear_count" ->
                 <<[t EXCEPT !.pc = "clear_clear", !.total = Cardinality(DOMAIN c)], c>>
          [] t.pc = "clear_clear" ->
                 <<Leave(t, None), [k \in {} |-> None]>>
          [] t.pc = "stats_total" ->
                 <<[t EXCEPT !.pc = "stats_expired", !.total = Cardinality(DOMAIN c)], c>>
          [] t.pc = "stats_expired" ->
                 <<Leave(t, [total_entries |-> t.total,
                             expired_entries |-> Cardinality(ExpiredKeys(c, time)),
                             active_entries |-> t.total - Cardinality(ExpiredKeys(c, time))]),
                   c>>
          [] t.pc = "cleanup_scan" ->
                 <<[t EXCEPT !.pc = "cleanup_del", !.keys = ExpiredKeys(c, time),
                             !.removed = Cardinality(ExpiredKeys(c, time))], c>>
          [] t.pc = "cleanup_del" ->
                 IF t.keys = {} THEN <<Leave(t, t.removed), c>>
                 ELSE LET k == CHOOSE x \in t.keys : TRUE
                      IN  IF k \in DOMAIN c
                          THEN <<[t EXCEPT !.keys = @ \ {k}], DictDel(c, k)>>
                          ELSE <<Throw(t, "KeyError"), c>>

\* one step of a method body
thread_step(th) ==
    /\ thread[th].pc \notin {"idle", "release", "done"}
    /\ thread' = [thread EXCEPT ![th] = Step(thread[th], cache, now)[1]]
    /\ cache' = Step(thread[th], cache, now)[2]
    /\ UNCHANGED <<now, lock>>
    /\ UNCHANGED notThreads

\* the with block is left; the method returns or raises. ok: it returned what
\* an atomic method would have, and the store is as that would have left it
thread_release(th) ==
    /\ thread[th].pc = "release"
    /\ lock' = IF lock = th THEN None ELSE lock
    /\ thread' = [thread EXCEPT ![th] =
            [IdleThread EXCEPT
                !.pc = "done", !.call = thread[th].call,
                !.err = thread[th].err,
                !.ok = IF thread[th].err # None THEN FALSE
                       ELSE /\ thread[th].ret = thread[th].value
                            /\ cache = thread[th].store[1]]]
    /\ UNCHANGED <<cache, now>>
    /\ UNCHANGED notThreads

\* the caller has the result
thread_return(th) ==
    /\ thread[th].pc = "done"
    /\ thread' = [thread EXCEPT ![th] = IdleThread]
    /\ UNCHANGED <<cache, now, lock>>
    /\ UNCHANGED notThreads

\* time passes between two calls
thread_tick ==
    /\ \A th \in Threads : thread[th].pc \in {"idle", "done"}
    /\ now < MaxTime
    /\ now' = now + 1
    /\ UNCHANGED <<cache, lock, thread>>
    /\ UNCHANGED notThreads

ThreadInit ==
    /\ lock = None
    /\ thread = [th \in Threads |-> IdleThread]

ThreadNext ==
    \/ \E th \in Threads, call \in ThreadCalls : thread_call(th, call)
    \/ \E th \in Threads : thread_step(th)
    \/ \E th \in Threads : thread_release(th)
    \/ \E th \in Threads : thread_return(th)
    \/ thread_tick

(***************************************************************************)
(* main.py: the proxy pool (get_next_proxy, remove_bad_proxy) and the      *)
(* single-item fetch loop (scrape_instagram_reel)                          *)
(***************************************************************************)

\* The pool the process starts with (55 distinct proxies in the source).
InitialPool == <<"p1", "p2", "p3">>
\* Every proxy a caller may name; "p9" was never in the pool.
Proxies == {"p1", "p2", "p3", "p9"}
\* The concurrent scrape_instagram_reel calls.
Tasks == {"t1", "t2"}

SetOf(s) == {s[i] : i \in DOMAIN s}

\* list.remove(x): drops the first occurrence
ListRemove(s, x) ==
    IF x \notin SetOf(s) THEN s
    ELSE LET i == CHOOSE j \in DOMAIN s : s[j] = x /\ \A h \in 1..(j - 1) : s[h] # x
         IN  [j \in 1..(Len(s) - 1) |-> IF j < i THEN s[j] ELSE s[j + 1]]

\* get_next_proxy: the candidates random.choice draws from
Candidates_NoExclusion(pl, last) == SetOf(pl)

Candidates_NoFallback(pl, last) == {p \in SetOf(pl) : p # last}

Candidates(pl, last) ==
    LET notLast == {p \in SetOf(pl) : p # last}
    IN  IF notLast = {} THEN SetOf(pl) ELSE notLast

\* remove_bad_proxy: the pool and _last_proxy afterwards
AfterRemove_KeepsProxy(pl, last, proxy) ==
    [pool |-> pl, last |-> IF last = proxy THEN None ELSE last]

AfterRemove_AlwaysClears(pl, last, proxy) ==
    [pool |-> ListRemove(pl, proxy), last |-> None]

AfterRemove(pl, last, proxy) ==
    IF proxy \in SetOf(pl)
    THEN [pool |-> ListRemove(pl, proxy), last |-> IF last = proxy THEN None ELSE last]
    ELSE [pool |-> pl, last |-> last]

get_next_proxy ==
    /\ \/ /\ Candidates(pool, last_proxy) = {}
          /\ nextLog' = [called |-> TRUE, ret |-> None, prev |-> nextLog.ret,
                         size |-> Len(pool), wasEvicted |-> FALSE]
          /\ UNCHANGED last_proxy
       \/ \E proxy \in Candidates(pool, last_proxy) :
             /\ last_proxy' = proxy
             /\ nextLog' = [called |-> TRUE, ret |-> proxy, prev |-> nextLog.ret,
                            size |-> Len(pool), wasEvicted |-> proxy \in evicted]
    /\ UNCHANGED <<pool, evicted, task>>
    /\ UNCHANGED notFetch

remove_bad_proxy(proxy) ==
    /\ pool' = AfterRemove(pool, last_proxy, proxy).pool
    /\ last_proxy' = AfterRemove(pool, last_proxy, proxy).last
    /\ evicted' = evicted \cup {proxy}
    /\ UNCHANGED <<nextLog, task>>
    /\ UNCHANGED notFetch

\* URL paths, as path.split("/") gives them: "/reel/s1/", "/reel/s1", "/", "".
Paths == {<<"", "reel", "s1", "">>, <<"", "reel", "s1">>, <<"", "">>, <<"">>}

\* parts = [p for p in parsed.path.split("/") if p]; parts[-1] if parts else None
Shortcode(path) ==
    LET parts == SelectSeq(path, LAMBDA p : p # "")
    IN  IF parts = <<>> THEN None ELSE parts[Len(parts)]

\* Outcomes of instaloader.Post.from_shortcode through one proxy: success, an
\* error with a rate-limit signature, any other error.
AttemptOutcomes == {"ok", "rate_limited", "other_error"}

IdleTask == [pc |-> "idle", shortcode |-> None, tried |-> {}, snap |-> <<>>, idx |-> 0,
             attempts |-> 0, result |-> None, stale |-> FALSE,
             last_error |-> None,   \* last_error = err_msg, by its kind
             response |-> None,     \* the status the /scrape endpoint answers with
             cooldowns |-> 0]       \* the cooldown sleeps of the call

PoolExhausted == "HTTPException(429)"

\* scrape_reel, the /scrape endpoint: the status it answers with for what
\* scrape_instagram_reel returned or raised. HTTPException is an Exception, so
\* the one scrape_instagram_reel raises is caught by except Exception.
scrape_reel(result) ==
    IF result = "fetched" THEN 200
    ELSE IF result = "ValueError" THEN 400
    ELSE 500

\* scrape_instagram_reel returns or raises, and the endpoint answers
Done(t, result) ==
    [t EXCEPT !.pc = "done", !.result = result, !.response = scrape_reel(result)]

\* for proxy in pool: if proxy in proxies_tried: continue -- from position `from`
\* of the copy on, up to the await before the next attempt, or past the loop to
\* the cooldown sleep.
ForLoop(t, from) ==
    LET untried == {j \in from..Len(t.snap) : t.snap[j] \notin t.tried}
    IN  IF untried = {}
        THEN [t EXCEPT !.pc = "cooldown_after", !.idx = 0]
        ELSE LET j == CHOOSE h \in untried : \A g \in untried : h <= g
             IN  [t EXCEPT !.pc = "attempt", !.idx = j, !.tried = @ \cup {t.snap[j]}]

\* while True: pool = _proxy_pool[:] ...
LoopTop(t, pl) ==
    IF pl = <<>>
    THEN [t EXCEPT !.pc = "cooldown_empty", !.snap = pl]
    ELSE ForLoop([t EXCEPT !.snap = pl], 1)

Enter_NoCheck(shortcode, stale, pl) ==
    LoopTop([IdleTask EXCEPT !.shortcode = shortcode, !.stale = stale], pl)

\* if not shortcode: raise ValueError("Invalid Instagram reel URL"), else into
\* the while loop
Enter(shortcode, stale, pl) ==
    IF shortcode = None
    THEN Done(IdleTask, "ValueError")
    ELSE LoopTop([IdleTask EXCEPT !.shortcode = shortcode, !.stale = stale], pl)

OnFailure_FailFast(t, outcome, from) ==
    IF outcome = "other_error"
    THEN Done([t EXCEPT !.last_error = outcome], "ScrapeFailure")
    ELSE ForLoop([t EXCEPT !.last_error = outcome], from)

\* except Exception as e: last_error = err_msg; remove_bad_proxy(proxy); then
\* continue, whether err_msg has a rate-limit signature or not
OnFailure(t, outcome, from) == ForLoop([t EXCEPT !.last_error = outcome], from)

\* the call, up to its first await
Call(id, path) ==
    /\ task[id].pc = "idle"
    /\ LET sc == Shortcode(path)
           stale == /\ sc # None
                    /\ ItemKey(sc) \in Keys /\ RateKey(sc) \in Keys
                    /\ GetResult(cache, ItemKey(sc), now) # None
                    /\ GetResult(cache, RateKey(sc), now) # None
       IN  task' = [task EXCEPT ![id] = Enter(sc, stale, pool)]
    /\ UNCHANGED proxyVars
    /\ UNCHANGED notFetch

\* await asyncio.sleep(cooldown_seconds) over, with the pool found empty before
CooldownEmpty(id) ==
    /\ task[id].pc = "cooldown_empty"
    /\ LET t == [task[id] EXCEPT !.cooldowns = @ + 1]
       IN  task' = [task EXCEPT ![id] =
               IF pool = <<>>
               THEN Done(t, PoolExhausted)
               ELSE ForLoop([t EXCEPT !.snap = pool], 1)]
    /\ UNCHANGED proxyVars
    /\ UNCHANGED notFetch

\* await asyncio.sleep(random.uniform(1, 2)) over: one fetch attempt through
\* the proxy chosen before the sleep, then on to the next await
Attempt(id, outcome) ==
    /\ task[id].pc = "attempt"
    /\ LET t == task[id]
           proxy == t.snap[t.idx]
           tried == [t EXCEPT !.attempts = @ + 1]
       IN  IF outcome = "ok"
           THEN /\ task' = [task EXCEPT ![id] = Done(tried, "fetched")]
                /\ UNCHANGED proxyVars
           ELSE /\ pool' = AfterRemove(pool, last_proxy, proxy).pool
                /\ last_proxy' = AfterRemove(pool, last_proxy, proxy).last
                /\ evicted' = evicted \cup {proxy}
                /\ task' = [task EXCEPT ![id] = OnFailure(tried, outcome, t.idx + 1)]
                /\ UNCHANGED nextLog
    /\ UNCHANGED notFetch

\* await asyncio.sleep(cooldown_seconds) over, after the for loop
CooldownAfter(id) ==
    /\ task[id].pc = "cooldown_after"
    /\ LET t == [task[id] EXCEPT !.cooldowns = @ + 1]
       IN  task' = [task EXCEPT ![id] =
               IF pool = <<>>
               THEN Done(t, PoolExhausted)
               ELSE LoopTop(t, pool)]
    /\ UNCHANGED proxyVars
    /\ UNCHANGED notFetch

\* the caller takes the result; the task may be called again
Finish(id) ==
    /\ task[id].pc = "done"
    /\ task' = [task EXCEPT ![id] = IdleTask]
    /\ UNCHANGED proxyVars
    /\ UNCHANGED notFetch

NoNext == [called |-> FALSE, ret |-> None, prev |-> None, size |-> 0, wasEvicted |-> FALSE]

ProxyInit ==
    /\ pool = InitialPool
    /\ last_proxy = None
    /\ evicted = {}
    /\ nextLog = NoNext
    /\ task = [id \in Tasks |-> IdleTask]

\* A cache holding an unexpired item and an unexpired rate-limit flag for s1.
StaleCache ==
    [k \in Keys |-> IF k = ItemKey("s1") THEN CacheEntry("reel_s1", default_ttl, 0)
                    ELSE CacheEntry("flag", default_ttl, 0)]

FetchNext ==
    \/ get_next_proxy
    \/ \E proxy \in Proxies : remove_bad_proxy(proxy)
    \/ \E id \in Tasks, path \in Paths : Call(id, path)
    \/ \E id \in Tasks : CooldownEmpty(id)
    \/ \E id \in Tasks, outcome \in AttemptOutcomes : Attempt(id, outcome)
    \/ \E id \in Tasks : CooldownAfter(id)
    \/ \E id \in Tasks : Finish(id)

(***************************************************************************)
(* scraper.py: InstagramScraper._smart_scroll                              *)
(***************************************************************************)

\* Largest scroll height and largest visible reel count the page reports.
MaxHeight == 2
MaxCount == 2
\* Largest max_scrolls a caller passes (the default in the source is 50).
MaxScrolls == 6

Heights == 0..MaxHeight
Counts == 0..MaxCount
Targets == 1..(MaxCount + 1)

\* "If no change after 3 attempts, we've reached the end"
StallLimit == 3

Min(a, b) == IF a < b THEN a ELSE b

\* 2 ** n
Pow2(n) == IF n = 0 THEN 1 ELSE IF n = 1 THEN 2 ELSE IF n = 2 THEN 4 ELSE IF n = 3 THEN 8
           ELSE 16

WaitTime_Linear(no_change_count) == Min(2 * no_change_count, 10)

\* wait_time = min(0.5 * (2 ** no_change_count), 5), in half seconds
WaitTime(no_change_count) == Min(Pow2(no_change_count), 10)

EndOfContent_Late(no_change_count) == no_change_count > StallLimit

\* if no_change_count >= 3: return reel_count
EndOfContent(no_change_count) == no_change_count >= StallLimit

IdleScroll ==
    [pc |-> "idle", target_count |-> 0, max_scrolls |-> 0,
     previous_height |-> 0, scroll_count |-> 0, no_change_count |-> 0,
     reel_count |-> 0, ret |-> 0, how |-> "none",
     \* what the call did and saw
     iters |-> 0, scrolls |-> 0, wait |-> 0,
     first_height |-> 0, height_varied |-> FALSE, count_rose |-> FALSE]

\* _smart_scroll(page, target_count, max_scrolls): the locals before the loop
smart_scroll_call(target_count, max_scrolls) ==
    /\ scroll.pc = "idle"
    /\ scroll' = [IdleScroll EXCEPT !.pc = "loop", !.target_count = target_count,
                                    !.max_scrolls = max_scrolls]
    /\ UNCHANGED notScroll

\* one pass of the while body; the page reports current_height and reel_count
smart_scroll_iteration(current_height, reel_count) ==
    /\ scroll.pc = "loop"
    /\ scroll.scroll_count < scroll.max_scrolls
    /\ LET s == [scroll EXCEPT
                    !.reel_count = reel_count,
                    !.iters = @ + 1,
                    !.first_height = IF scroll.iters = 0 THEN current_height ELSE @,
                    !.height_varied = @ \/ (scroll.iters > 0
                                            /\ current_height # scroll.previous_height),
                    !.count_rose = @ \/ (scroll.iters > 0
                                         /\ reel_count > scroll.reel_count)]
           stalled == s.no_change_count + 1
       IN  scroll' =
             IF reel_count >= s.target_count
             THEN [s EXCEPT !.pc = "done", !.ret = reel_count, !.how = "target"]
             ELSE IF current_height = s.previous_height
             THEN IF EndOfContent(stalled)
                  THEN [s EXCEPT !.pc = "done", !.ret = reel_count, !.how = "stall",
                                 !.scrolls = @ + 1, !.no_change_count = stalled,
                                 !.wait = WaitTime(stalled)]
                  ELSE [s EXCEPT !.scrolls = @ + 1, !.no_change_count = stalled,
                                 !.wait = WaitTime(stalled),
                                 !.previous_height = current_height,
                                 !.scroll_count = @ + 1]
             ELSE [s EXCEPT !.scrolls = @ + 1, !.no_change_count = 0, !.wait = 1,
                            !.previous_height = current_height,
                            !.scroll_count = @ + 1]
    /\ UNCHANGED notScroll

\* the while condition fails: "Max scrolls reached", return reel_count -- a name
\* no pass of the body has bound when max_scrolls <= 0
smart_scroll_exit ==
    /\ scroll.pc = "loop"
    /\ scroll.scroll_count >= scroll.max_scrolls
    /\ scroll' = IF scroll.iters = 0
                 THEN [scroll EXCEPT !.pc = "done", !.how = "UnboundLocalError"]
                 ELSE [scroll EXCEPT !.pc = "done", !.ret = scroll.reel_count,
                                     !.how = "max"]
    /\ UNCHANGED notScroll

\* the caller takes the result
smart_scroll_return ==
    /\ scroll.pc = "done"
    /\ scroll' = IdleScroll
    /\ UNCHANGED notScroll

ScrollInit == scroll = IdleScroll

ScrollNext ==
    \/ \E target_count \in Targets, max_scrolls \in 0..MaxScrolls :
          smart_scroll_call(target_count, max_scrolls)
    \/ \E current_height \in Heights, reel_count \in Counts :
          smart_scroll_iteration(current_height, reel_count)
    \/ smart_scroll_exit
    \/ smart_scroll_return

(***************************************************************************)
(* scraper.py: InstagramScraper._check_account_status                      *)
(***************************************************************************)

SUCCESS == "SUCCESS"
PRIVATE == "PRIVATE"
NOT_FOUND == "NOT_FOUND"
ERROR == "ERROR"
RATE_LIMITED == "RATE_LIMITED"

\* not_found_selectors: "Sorry, this page isn't available", "The link you
\* followed may be broken"
not_found_selectors == <<"nf_sorry", "nf_broken_link">>
\* private_selectors: "This Account is Private", h2 "This account is private"
private_selectors == <<"pv_text", "pv_h2">>

Selectors == SetOf(not_found_selectors) \cup SetOf(private_selectors)

\* What page.wait_for_selector(selector, timeout=1000) does on a page: it
\* returns the element, raises a timeout (marker absent within the wait), or
\* raises anything else (the page crashed, the context was destroyed).
ProbeOutcomes == {"found", "timeout", "fault"}

\* A string, as the sequence of pieces the substring tests can tell apart.
\* Usernames: "pubuser", and one with "login" inside ("the" "login" "guy").
Usernames == {<<"pubuser">>, <<"the", "login", "guy">>}

\* url = f"https://www.instagram.com/{username}/reels/", as path segments
ProfileUrl(username) == <<username, <<"reels">>>>

\* The URLs page.url may hold after navigation: the profile's own, or the
\* platform's redirect to its login page or to a challenge page.
FinalUrls(username) ==
    {ProfileUrl(username), <<<<"accounts">>, <<"login">>>>, <<<<"challenge">>>>}

\* "kw in page.url": a substring test over the whole URL
UrlContains(url, kw) ==
    \E i \in DOMAIN url : \E j \in DOMAIN url[i] : url[i][j] = kw

\* a path segment equal to kw
HasSegment(url, kw) == \E i \in DOMAIN url : url[i] = <<kw>>

\* The pages the classifier may be shown.
Pages == {[probe |-> p, url |-> u] :
             p \in [Selectors -> ProbeOutcomes],
             u \in UNION {FinalUrls(n) : n \in Usernames}}

\* The order of the probes: the not-found loop, then the private loop.
ProbeOrder_PrivateFirst == private_selectors \o not_found_selectors

ProbeOrder == not_found_selectors \o private_selectors

\* for selector in ...: try: element = await page.wait_for_selector(selector,
\* timeout=1000); if element: return ... except: pass -- the position of the
\* first probe that returns an element, 0 when none does. A probe that raises,
\* whatever it raises, is passed over.
FirstHit(page) ==
    LET hits == {i \in DOMAIN ProbeOrder : page.probe[ProbeOrder[i]] = "found"}
    IN  IF hits = {} THEN 0 ELSE CHOOSE i \in hits : \A j \in hits : i <= j

\* the selectors probed, in order
Probed(page) ==
    IF FirstHit(page) = 0 THEN ProbeOrder ELSE SubSeq(ProbeOrder, 1, FirstHit(page))

\* _check_account_status: (status, message)
check_account_status(page) ==
    LET hit == FirstHit(page)
    IN  IF hit # 0 /\ ProbeOrder[hit] \in SetOf(not_found_selectors)
        THEN [status |-> NOT_FOUND, message |-> "Account does not exist"]
        ELSE IF hit # 0
        THEN [status |-> PRIVATE, message |-> "Account is private"]
        ELSE IF UrlContains(page.url, "challenge") \/ UrlContains(page.url, "login")
        THEN [status |-> RATE_LIMITED, message |-> "Rate limited or login required"]
        ELSE [status |-> SUCCESS, message |-> None]

IdleCls == [pc |-> "idle", page |-> [probe |-> [s \in Selectors |-> "timeout"],
                                     url |-> <<>>],
            status |-> None, message |-> None, probed |-> <<>>]

classify(page) ==
    /\ cls.pc = "idle"
    /\ cls' = [pc |-> "done", page |-> page,
               status |-> check_account_status(page).status,
               message |-> check_account_status(page).message,
               probed |-> Probed(page)]
    /\ UNCHANGED notCls

classify_return ==
    /\ cls.pc = "done"
    /\ cls' = IdleCls
    /\ UNCHANGED notCls

ClsInit == cls = IdleCls

ClsNext ==
    \/ \E page \in Pages : classify(page)
    \/ classify_return

(***************************************************************************)
(* scraper.py: the extraction strategies                                   *)
(***************************************************************************)

\* An edge of a timeline-media collection: whether its "node" is a dict at
\* all, the node's is_video flag, its shortcode ("" when absent or empty) and
\* whether its taken_at_timestamp converts; thumb: whether it carries a
\* thumbnail_src or a display_url.
Edge(dict, is_video, shortcode, ts_ok) ==
    [dict |-> dict, is_video |-> is_video, shortcode |-> shortcode, ts_ok |-> ts_ok,
     thumb |-> TRUE]
Video(shortcode) == Edge(TRUE, TRUE, shortcode, TRUE)
Photo(shortcode) == Edge(TRUE, FALSE, shortcode, TRUE)
\* {"node": null}: node.get raises AttributeError
NullNode == Edge(FALSE, FALSE, "", TRUE)
\* a video node whose taken_at_timestamp datetime.fromtimestamp rejects
BadTimestamp(shortcode) == Edge(TRUE, TRUE, shortcode, FALSE)
\* a video node with neither thumbnail_src nor display_url
NoThumbnail(shortcode) == [Video(shortcode) EXCEPT !.thumb = FALSE]

\* A parsed JSON body: one with data.user.edge_owner_to_timeline_media.edges,
\* or any other.
Timeline(edges) == [kind |-> "timeline", edges |-> edges]
OtherJson == [kind |-> "other", edges |-> <<>>]

\* The payloads the platform may answer with.
PayloadChoices ==
    { OtherJson,
      Timeline(<<Video("a"), Video("b")>>),
      Timeline(<<Video("a")>>),
      Timeline(<<Photo("c"), Video("d")>>),
      Timeline(<<Video(""), Video("e")>>),
      Timeline(<<NullNode, Video("f")>>),
      Timeline(<<BadTimestamp("g"), Video("h")>>),
      Timeline(<<NoThumbnail("k")>>) }

\* a reel dict; via is "node" for a parsed media node, "dom" for a scraped link;
\* thumbnail_url: whether it is a string (FALSE: it is None)
Reel(shortcode, via) == [id |-> shortcode, via |-> via, thumbnail_url |-> TRUE]

\* _parse_media_node: <<reel>>, or <<>> for None
parse_media_node(node) ==
    IF node.shortcode = "" THEN <<>>
    ELSE IF ~node.ts_ok THEN <<>>
    ELSE <<[Reel(node.shortcode, "node") EXCEPT !.thumbnail_url = node.thumb]>>

\* for edge in edges: node = edge.get("node", {}); if node.get("is_video"): ...
\* An edge whose node is no dict raises out of the loop; the reels appended
\* before it stay.
RECURSIVE ParseEdges(_)
ParseEdges(edges) ==
    IF edges = <<>> THEN <<>>
    ELSE IF ~Head(edges).dict THEN <<>>
    ELSE IF Head(edges).is_video
    THEN parse_media_node(Head(edges)) \o ParseEdges(Tail(edges))
    ELSE ParseEdges(Tail(edges))

\* _parse_graphql_data
RECURSIVE parse_graphql_data(_)
parse_graphql_data(graphql_responses) ==
    IF graphql_responses = <<>> THEN <<>>
    ELSE (IF Head(graphql_responses).kind = "timeline"
          THEN ParseEdges(Head(graphql_responses).edges) ELSE <<>>)
         \o parse_graphql_data(Tail(graphql_responses))

\* window._sharedData as _extract_shared_data returns it: None (absent, or the
\* evaluation failed), a blob without ProfilePage, or a profile page's blob.
NoShared == [kind |-> "none", edges |-> <<>>]
SharedChoices ==
    { NoShared,
      [kind |-> "other", edges |-> <<>>],
      [kind |-> "profile", edges |-> <<Video("s")>>],
      [kind |-> "profile", edges |-> <<Photo("t")>>],
      [kind |-> "profile", edges |-> <<NullNode, Video("u")>>] }

\* _parse_shared_data
parse_shared_data(shared_data) ==
    IF shared_data.kind = "profile" THEN ParseEdges(shared_data.edges) ELSE <<>>

\* The anchors a[href*="/reel/"] of the document, in document order: the href
\* and what r'/reel/([^/]+)' captures from it ("" when it does not match).
\* h1 and h3 are two hrefs of the same reel.
Link(href, shortcode) == [href |-> href, shortcode |-> shortcode]
DomChoices ==
    { [fault |-> TRUE, links |-> <<>>],
      [fault |-> FALSE, links |-> <<>>],
      [fault |-> FALSE, links |-> <<Link("h1", "x"), Link("h2", "y"), Link("h1", "x")>>],
      [fault |-> FALSE, links |-> <<Link("h1", "x"), Link("h3", "x")>>],
      [fault |-> FALSE, links |-> <<Link("h4", "")>>] }

\* the orders list(set(reel_links)) may come in
Orders(S) ==
    {f \in [1..Cardinality(S) -> S] : \A i, j \in 1..Cardinality(S) : f[i] = f[j] => i = j}

\* _scrape_reels_from_dom, for one order of the unique links
RECURSIVE DomReels(_)
DomReels(unique_links) ==
    IF unique_links = <<>> THEN <<>>
    ELSE (IF Head(unique_links).shortcode = "" THEN <<>>
          ELSE <<Reel(Head(unique_links).shortcode, "dom")>>)
         \o DomReels(Tail(unique_links))

scrape_reels_from_dom(dom, order) == IF dom.fault THEN <<>> ELSE DomReels(order)

extract_reels_from_page_NoEarlyReturn(buffer, shared, dom, order) ==
    [reels |-> parse_graphql_data(buffer) \o parse_shared_data(shared)
               \o scrape_reels_from_dom(dom, order),
     invoked |-> <<"graphql", "shared", "dom">>]

\* _extract_reels_from_page: the reels, and the strategies invoked, in order
extract_reels_from_page(buffer, shared, dom, order) ==
    LET g == parse_graphql_data(buffer)
        s == parse_shared_data(shared)
        first == IF buffer # <<>> THEN <<"graphql">> ELSE <<>>
    IN  IF buffer # <<>> /\ g # <<>>
        THEN [reels |-> g, invoked |-> first]
        ELSE IF shared.kind # "none" /\ s # <<>>
        THEN [reels |-> s, invoked |-> first \o <<"shared">>]
        ELSE [reels |-> scrape_reels_from_dom(dom, order),
              invoked |-> first \o <<"shared", "dom">>]

\* reels[:limit]
Take(s, n) == SubSeq(s, 1, Min(n, Len(s)))

(***************************************************************************)
(* scraper.py: InstagramScraper.scrape_reels and the response listener     *)
(***************************************************************************)

\* Largest limit a caller passes (the endpoint allows 1..100).
MaxLimit == 3
\* Most payloads the listener buffers during one crawl.
MaxBuffered == 2

\* The responses the page may receive: one per payload from a data endpoint,
\* one from another URL, one with another status, one whose body is no JSON.
Responses ==
    {[url |-> "graphql/query", status |-> 200, json |-> TRUE, body |-> p] :
        p \in PayloadChoices}
    \cup {[url |-> "api/v1/feed", status |-> 200, json |-> TRUE, body |-> OtherJson],
          [url |-> "static", status |-> 200, json |-> TRUE, body |-> OtherJson],
          [url |-> "graphql/query", status |-> 404, json |-> TRUE, body |-> OtherJson],
          [url |-> "graphql/query", status |-> 200, json |-> FALSE, body |-> OtherJson]}

\* _intercept_graphql_response: the buffer afterwards
AfterIntercept(buffer, response) ==
    IF /\ response.url \in {"graphql/query", "api/v1/feed"}
       /\ response.status = 200
       /\ response.json
    THEN Append(buffer, response.body)
    ELSE buffer

\* What the classifier is shown during a crawl: no marker, a not-found marker,
\* a private marker, or both, under each URL the navigation may end on.
CrawlProbes ==
    {[s \in Selectors |-> IF s \in found THEN "found" ELSE "timeout"] :
        found \in {{}, {"nf_sorry"}, {"pv_text"}, {"nf_sorry", "pv_text"}}}
CrawlPages(username) ==
    {[probe |-> p, url |-> u] : p \in CrawlProbes, u \in FinalUrls(username)}

NoResult == [kind |-> "none", items |-> <<>>, status |-> None, message |-> None]
Returned(items, status, message) ==
    [kind |-> "return", items |-> items, status |-> status, message |-> message]
Raised(message) ==
    [kind |-> "raise", items |-> <<>>, status |-> None, message |-> message]

\* An HTTP response: its status code and, for 200, the body's reels_count and
\* reels.
HTTPException(code) == [code |-> code, reels_count |-> 0, reels |-> <<>>]
NoResponse == HTTPException(0)

IdleCrawl ==
    [pc |-> "idle", limit |-> 0,
     context |-> "none", page |-> "none",
     status |-> None, message |-> None,     \* what _check_account_status returned
     stages |-> {},                         \* the stages run after classification
     seen |-> <<>>, shared |-> NoShared, invoked |-> <<>>, reels |-> <<>>,
     dom |-> <<>>,                          \* the anchors of the document at extraction
     ret |-> NoResult,                      \* the value a return statement gave
     out |-> NoResult,                      \* how the call ended
     errors |-> <<>>,                       \* the exceptions raised, in order
     captured |-> <<>>,                     \* the payloads buffered from its own tab
     result |-> NoResult,                   \* what the module-level wrapper returned
     response |-> NoResponse]               \* what the endpoint answered

\* An exception: a PlaywrightTimeout or any other, with its message str(e).
Timeout == [kind |-> "timeout", msg |-> "Timeout 30000ms exceeded"]
Fault(msg) == [kind |-> "fault", msg |-> msg]
Exceptions(outcome, msg) == IF outcome = "timeout" THEN Timeout ELSE Fault(msg)

Except_NoMessage(e) == Returned(<<>>, ERROR, None)

\* except PlaywrightTimeout: return [], ERROR, "Request timeout";
\* except Exception as e: return [], ERROR, str(e)
Except(e) ==
    Returned(<<>>, ERROR, IF e.kind = "timeout" THEN "Request timeout" ELSE e.msg)

\* an exception e raised inside try: the except clause's return, then finally
Caught(c, e) == [c EXCEPT !.errors = Append(@, e)]

\* return ... inside try (or its except clauses): on to the finally block,
\* which awaits page.close() if a page exists, then context.close() if a
\* context exists, then clears the buffer
ToFinally(c, ret) ==
    [c EXCEPT !.ret = ret,
              !.pc = IF c.page # "none" THEN "close_page"
                     ELSE IF c.context # "none" THEN "close_context"
                     ELSE "done",
              !.out = IF c.page = "none" /\ c.context = "none" THEN ret ELSE @]

\* the buffer after a step that may have run the finally block to its end
Cleared(c, buffer) == IF c.pc = "done" /\ c.out.kind = "return" THEN <<>> ELSE buffer

\* scrape_reels(username, limit), to the first await inside try; the browser is
\* launched first when there is none, which may raise
scrape_reels_call(limit, launch) ==
    /\ crawl.pc = "idle"
    /\ IF browser \/ launch = "ok"
       THEN /\ browser' = TRUE
            /\ crawl' = [IdleCrawl EXCEPT !.pc = "new_context", !.limit = limit]
       ELSE /\ browser' = FALSE
            /\ crawl' = [IdleCrawl EXCEPT !.pc = "done", !.limit = limit,
                                          !.out = Raised("Failed to launch browser"),
                                          !.errors = <<Fault("Failed to launch browser")>>]
    /\ UNCHANGED <<graphql_data, other>>
    /\ UNCHANGED notCrawl

\* context = await self.browser.new_context(...)
new_context(outcome) ==
    /\ crawl.pc = "new_context"
    /\ crawl' = IF outcome = "ok"
                THEN [crawl EXCEPT !.pc = "new_page", !.context = "open"]
                ELSE ToFinally(Caught(crawl, Fault("new_context failed")),
                               Except(Fault("new_context failed")))
    /\ graphql_data' = Cleared(crawl', graphql_data)
    /\ UNCHANGED <<browser, other>>
    /\ UNCHANGED notCrawl

\* page = await context.new_page(); page.on("response", ...)
new_page(outcome) ==
    /\ crawl.pc = "new_page"
    /\ crawl' = IF outcome = "ok"
                THEN [crawl EXCEPT !.pc = "goto", !.page = "open"]
                ELSE ToFinally(Caught(crawl, Fault("new_page failed")),
                               Except(Fault("new_page failed")))
    /\ UNCHANGED <<browser, graphql_data, other>>
    /\ UNCHANGED notCrawl

\* a response event while the page is open and the listener registered
intercept_graphql_response(response) ==
    /\ crawl.page = "open"
    /\ crawl.pc \in {"goto", "classify", "scroll", "extract", "close_page"}
    /\ Len(graphql_data) < MaxBuffered
    /\ Len(crawl.captured) < MaxBuffered
    /\ graphql_data' = AfterIntercept(graphql_data, response)
    /\ crawl' = [crawl EXCEPT !.captured = AfterIntercept(@, response)]
    /\ UNCHANGED <<browser, other>>
    /\ UNCHANGED notCrawl

\* await page.goto(url, wait_until="domcontentloaded", timeout=30000)
goto(outcome) ==
    /\ crawl.pc = "goto"
    /\ crawl' = IF outcome = "ok" THEN [crawl EXCEPT !.pc = "classify"]
                ELSE ToFinally(Caught(crawl, Exceptions(outcome, "goto failed")),
                               Except(Exceptions(outcome, "goto failed")))
    /\ UNCHANGED <<browser, graphql_data, other>>
    /\ UNCHANGED notCrawl

\* if status != ScraperStatus.SUCCESS: return [], status, message
AfterClassify(c, r) ==
    IF r.status # SUCCESS
    THEN ToFinally([c EXCEPT !.status = r.status, !.message = r.message],
                   Returned(<<>>, r.status, r.message))
    ELSE [c EXCEPT !.pc = "scroll", !.status = r.status, !.message = r.message]

\* status, message = await self._check_account_status(page)
check_status(page) ==
    /\ crawl.pc = "classify"
    /\ crawl' = AfterClassify(crawl, check_account_status(page))
    /\ UNCHANGED <<browser, graphql_data, other>>
    /\ UNCHANGED notCrawl

\* await self._smart_scroll(page, limit): its value is dropped; a failing
\* page.evaluate raises out of it
smart_scroll(outcome) ==
    /\ crawl.pc = "scroll"
    /\ crawl' = IF outcome = "ok"
                THEN [crawl EXCEPT !.pc = "extract", !.stages = @ \cup {"scroll"}]
                ELSE ToFinally(Caught([crawl EXCEPT !.stages = @ \cup {"scroll"}],
                                      Fault("evaluate failed")),
                               Except(Fault("evaluate failed")))
    /\ UNCHANGED <<browser, graphql_data, other>>
    /\ UNCHANGED notCrawl

\* reels = await self._extract_reels_from_page(page); reels = reels[:limit];
\* return reels, ScraperStatus.SUCCESS, None
extract(shared, dom, order) ==
    /\ crawl.pc = "extract"
    /\ LET e == extract_reels_from_page(graphql_data, shared, dom, order)
       IN  crawl' = ToFinally([crawl EXCEPT !.stages = @ \cup {"extract"},
                                            !.seen = graphql_data,
                                            !.shared = shared,
                                            !.dom = dom.links,
                                            !.invoked = e.invoked,
                                            !.reels = e.reels],
                              Returned(Take(e.reels, crawl.limit), SUCCESS, None))
    /\ UNCHANGED <<browser, graphql_data, other>>
    /\ UNCHANGED notCrawl

\* finally: if page: await page.close() -- which may raise; whether the tab is
\* gone then is not known
close_page(outcome, left) ==
    /\ crawl.pc = "close_page"
    /\ crawl' = IF outcome = "ok"
                THEN [crawl EXCEPT !.pc = "close_context", !.page = "closed"]
                ELSE [crawl EXCEPT !.pc = "done", !.page = left,
                                   !.out = Raised("page.close failed"),
                                   !.errors = Append(@, Fault("page.close failed"))]
    /\ UNCHANGED <<browser, graphql_data, other>>
    /\ UNCHANGED notCrawl

\* if context: await context.close(); self.graphql_data.clear(); and the
\* pending return value is returned
close_context(outcome, left) ==
    /\ crawl.pc = "close_context"
    /\ IF outcome = "ok"
       THEN /\ crawl' = [crawl EXCEPT !.pc = "done", !.context = "closed",
                                      !.out = crawl.ret]
            /\ graphql_data' = <<>>
       ELSE /\ crawl' = [crawl EXCEPT !.pc = "done", !.context = left,
                                      !.out = Raised("context.close failed"),
                                      !.errors = Append(@, Fault("context.close failed"))]
            /\ UNCHANGED graphql_data
    /\ UNCHANGED <<browser, other>>
    /\ UNCHANGED notCrawl

WrapperResult_NoCatch(out, closed) == out

\* scrape_reels(username, limit), the module-level function: what it returns
\* for the way the method ended and the way browser.close() in __aexit__ went
WrapperResult(out, closed) ==
    IF closed = "fault" THEN Returned(<<>>, ERROR, "browser.close failed")
    ELSE IF out.kind = "raise" THEN Returned(<<>>, ERROR, out.message)
    ELSE out

\* the module-level scrape_reels after its scraper's method ended: __aexit__
\* closes the browser if there is one, except Exception turns what is raised
\* into [], ERROR, str(e); the scraper is dropped
wrapper_exit(closed) ==
    /\ crawl.pc = "done"
    /\ closed = "fault" => browser
    /\ crawl' = [crawl EXCEPT
                    !.pc = "returned",
                    !.result = WrapperResult(crawl.out, closed),
                    !.errors = IF closed = "fault"
                               THEN Append(@, Fault("browser.close failed")) ELSE @]
    /\ browser' = FALSE
    /\ graphql_data' = <<>>
    /\ UNCHANGED other
    /\ UNCHANGED notCrawl

\* ReelData(**reel) validates: thumbnail_url: str is required and not None
ReelData(reel) == reel.thumbnail_url

\* scrape_user_reels: the response for what scrape_reels(username, limit)
\* returned
ScrapeUserResponse(result) ==
    IF result.status = PRIVATE THEN HTTPException(403)
    ELSE IF result.status = NOT_FOUND THEN HTTPException(404)
    ELSE IF result.status = RATE_LIMITED THEN HTTPException(429)
    ELSE IF result.status = ERROR THEN HTTPException(500)
    ELSE IF \E i \in DOMAIN result.items : ~ReelData(result.items[i])
    THEN HTTPException(500)
    ELSE [code |-> 200, reels_count |-> Len(result.items), reels |-> result.items]

\* GET /scrape/user/{username}?limit=, after its await scrape_reels(...)
scrape_user_reels ==
    /\ crawl.pc = "returned"
    /\ crawl' = [crawl EXCEPT !.pc = "responded",
                              !.response = ScrapeUserResponse(crawl.result)]
    /\ UNCHANGED <<browser, graphql_data, other>>
    /\ UNCHANGED notCrawl

\* the caller has the result; the scraper may be used for another crawl
scrape_reels_done ==
    /\ crawl.pc \in {"done", "returned", "responded"}
    /\ crawl' = IdleCrawl
    /\ UNCHANGED <<browser, graphql_data, other>>
    /\ UNCHANGED notCrawl

\* What the other profile's feed answers with: a video node of its own.
OtherPayload == Timeline(<<Video("z")>>)

\* a second scrape_reels call on the same scraper has opened its tab and
\* registered the same listener, self._intercept_graphql_response
other_new_page ==
    /\ browser
    /\ ~other
    /\ other' = TRUE
    /\ UNCHANGED <<browser, graphql_data, crawl>>
    /\ UNCHANGED notCrawl

\* a response event on the second call's tab
other_intercept_graphql_response ==
    /\ other
    /\ Len(graphql_data) < MaxBuffered
    /\ graphql_data' = Append(graphql_data, OtherPayload)
    /\ UNCHANGED <<browser, crawl, other>>
    /\ UNCHANGED notCrawl

\* the second call's finally block ran to its end: self.graphql_data.clear()
other_finally ==
    /\ other
    /\ other' = FALSE
    /\ graphql_data' = <<>>
    /\ UNCHANGED <<browser, crawl>>
    /\ UNCHANGED notCrawl

OtherNext ==
    \/ other_new_page
    \/ other_intercept_graphql_response
    \/ other_finally

CrawlInit ==
    /\ browser = FALSE
    /\ graphql_data = <<>>
    /\ crawl = IdleCrawl
    /\ other = FALSE

CrawlNext ==
    \/ \E limit \in 1..MaxLimit, launch \in {"ok", "fault"} : scrape_reels_call(limit, launch)
    \/ \E outcome \in {"ok", "fault"} : new_context(outcome)
    \/ \E outcome \in {"ok", "fault"} : new_page(outcome)
    \/ \E response \in Responses : intercept_graphql_response(response)
    \/ \E outcome \in {"ok", "timeout", "fault"} : goto(outcome)
    \/ \E username \in Usernames : \E page \in CrawlPages(username) : check_status(page)
    \/ \E outcome \in {"ok", "fault"} : smart_scroll(outcome)
    \/ \E shared \in SharedChoices, dom \in DomChoices :
          \E order \in Orders(SetOf(dom.links)) : extract(shared, dom, order)
    \/ \E outcome \in {"ok", "fault"}, left \in {"open", "closed"} : close_page(outcome, left)
    \/ \E outcome \in {"ok", "fault"}, left \in {"open", "closed"} :
          close_context(outcome, left)
    \/ \E closed \in {"ok", "fault"} : wrapper_exit(closed)
    \/ scrape_user_reels
    \/ scrape_reels_done

(***************************************************************************)
(* Specifications                                                          *)
(***************************************************************************)

Init == CacheInit /\ ThreadInit /\ ProxyInit /\ ScrollInit /\ ClsInit /\ CrawlInit

\* The cache on its own.
SpecCache == Init /\ [][CacheNext]_vars

\* The cache called from several threads.
SpecThreads == Init /\ [][ThreadNext]_vars

\* The proxy pool and the fetch loop; the cache is as earlier calls left it:
\* empty, or holding an item and a rate-limit flag for s1.
FetchInit ==
    /\ cache \in {[k \in {} |-> None], StaleCache}
    /\ now = 0
    /\ cacheOp = NoOp
    /\ ThreadInit /\ ProxyInit /\ ScrollInit /\ ClsInit /\ CrawlInit

SpecFetch == FetchInit /\ [][FetchNext]_vars

\* The calls alone, every sleep of a call coming to its end: the event loop resumes
\* a task whose asyncio.sleep is over.
Resumes(id) ==
    /\ WF_vars(CooldownEmpty(id))
    /\ WF_vars(\E outcome \in AttemptOutcomes : Attempt(id, outcome))
    /\ WF_vars(CooldownAfter(id))

\* The steps of the concurrent scrape_instagram_reel calls alone.
LoopNext ==
    \/ \E id \in Tasks, path \in Paths : Call(id, path)
    \/ \E id \in Tasks : CooldownEmpty(id)
    \/ \E id \in Tasks, outcome \in AttemptOutcomes : Attempt(id, outcome)
    \/ \E id \in Tasks : CooldownAfter(id)
    \/ \E id \in Tasks : Finish(id)

SpecFetchLive == Init /\ [][LoopNext]_vars /\ \A id \in Tasks : Resumes(id)

\* The scroll loop against every page behaviour.
SpecScroll == Init /\ [][ScrollNext]_vars

\* The classifier against every page.
SpecClassify == Init /\ [][ClsNext]_vars

\* One scraper crawling, one crawl after the other.
SpecCrawl == Init /\ [][CrawlNext]_vars

\* Two scrape_reels calls on one scraper: the steps of the first, here without
\* faults and with one payload for its own tab, interleaved with the second's.
ConcurrentNext ==
    \/ /\ CrawlNext
       /\ crawl'.errors = <<>>
       /\ \A i \in DOMAIN graphql_data' :
              graphql_data'[i] \in {Timeline(<<Video("a")>>), OtherPayload}
    \/ OtherNext

SpecConcurrentCrawls == Init /\ [][ConcurrentNext]_vars

Spec == SpecCrawl

(***************************************************************************)
(* Claims                                                                  *)
(***************************************************************************)

\* C1: an entry stored by set with TTL t at time c is returned by get(key) at
\* time now while now - c <= t; as soon as now - c > t, get returns none and
\* the entry is gone from the store.
C1_GetHonoursTTL ==
    (cacheOp.op = "get" /\ Len(cacheOp.pre) = 1) =>
        LET e == cacheOp.pre[1]
        IN  /\ (cacheOp.at - e.created_at <= e.ttl_seconds) =>
                 /\ cacheOp.ret = e.data
                 /\ cacheOp.key \in DOMAIN cache
                 /\ cache[cacheOp.key] = e
            /\ (cacheOp.at - e.created_at > e.ttl_seconds) =>
                 /\ cacheOp.ret = None
                 /\ cacheOp.key \notin DOMAIN cache

\* C1 witness: a get one tick past the bound (now - c = t + 1) of an entry
\* stored with a TTL above zero, which returned none and purged the entry.
C1_Witness_JustExpired ==
    /\ cacheOp.op = "get" /\ Len(cacheOp.pre) = 1
    /\ cacheOp.pre[1].ttl_seconds > 0
    /\ cacheOp.at - cacheOp.pre[1].created_at = cacheOp.pre[1].ttl_seconds + 1
    /\ cacheOp.ret = None
    /\ cacheOp.key \notin DOMAIN cache

\* C2: eviction is permanent. Under any sequence of next(), evict() and
\* fetchItem steps the set of available proxies only shrinks, and a next()
\* never returns a proxy evict() had been called with before.
C2_EvictionPermanent ==
    [][ /\ SetOf(pool') \subseteq SetOf(pool)
        /\ Len(pool') <= Len(pool)
        /\ nextLog'.called => ~nextLog'.wasEvicted ]_vars

\* C2 witness: a next() called when two of the three proxies had been evicted,
\* which returned the one left.
C2_Witness_NextAfterEvictions ==
    /\ nextLog.called /\ nextLog.size = 1
    /\ Len(pool) = 1 /\ nextLog.ret = pool[1]
    /\ Cardinality(evicted \cap SetOf(InitialPool)) = 2

\* C3: whenever the pool holds at least two proxies, next() does not return
\* the proxy the immediately preceding next() returned.
C3_NoImmediateRepeat ==
    (nextLog.called /\ nextLog.size >= 2) =>
        /\ nextLog.ret # None
        /\ nextLog.ret # nextLog.prev

\* C3 witness: a next() on a pool of two which still held the proxy the
\* preceding next() returned, after an eviction.
C3_Witness_AlternativeChosen ==
    /\ nextLog.called /\ nextLog.size = 2
    /\ nextLog.prev # None /\ nextLog.prev \in SetOf(pool)
    /\ nextLog.ret \in SetOf(pool)
    /\ evicted # {}

\* C4: extract tries the intercepted payloads, then the page-state blob, then
\* the DOM links, and the first strategy that yields an item ends it: when the
\* payloads yield an item neither the page-state read nor the DOM scrape is
\* invoked, when the blob yields an item the DOM scrape is not invoked.
C4_FirstYieldWins ==
    ("extract" \in crawl.stages) =>
        LET g == parse_graphql_data(crawl.seen)
            s == parse_shared_data(crawl.shared)
        IN  /\ crawl.invoked \in {<<"graphql">>, <<"graphql", "shared">>,
                                  <<"graphql", "shared", "dom">>,
                                  <<"shared">>, <<"shared", "dom">>}
            /\ g # <<>> => crawl.invoked = <<"graphql">> /\ crawl.reels = g
            /\ g = <<>> => "shared" \in SetOf(crawl.invoked)
            /\ s # <<>> => "dom" \notin SetOf(crawl.invoked)
            /\ (g = <<>> /\ s # <<>>) => crawl.reels = s
            /\ (g = <<>> /\ s = <<>>) => "dom" \in SetOf(crawl.invoked)

\* C4 witness: the payloads yielded items while the blob held a video node
\* too, and only the first strategy was invoked.
C4_Witness_PayloadsWin ==
    /\ "extract" \in crawl.stages
    /\ parse_graphql_data(crawl.seen) # <<>>
    /\ parse_shared_data(crawl.shared) # <<>>
    /\ crawl.invoked = <<"graphql">>

\* C5: when the classifier returns a status other than SUCCESS, crawl returns
\* an empty item list with exactly that status and message, and neither the
\* scroll stage nor the extraction stage is run.
C5_ShortCircuit ==
    (crawl.pc = "done" /\ crawl.status \notin {None, SUCCESS}) =>
        /\ crawl.out = Returned(<<>>, crawl.status, crawl.message)
        /\ crawl.stages = {}

\* the well-formed video nodes with a shortcode among the edges
RECURSIVE VideoNodes(_)
VideoNodes(edges) ==
    IF edges = <<>> THEN 0
    ELSE (IF /\ Head(edges).dict /\ Head(edges).ts_ok
             /\ Head(edges).is_video /\ Head(edges).shortcode # "" THEN 1 ELSE 0)
         + VideoNodes(Tail(edges))

\* the video nodes with a shortcode in the buffered payloads
RECURSIVE VideoNodesIn(_)
VideoNodesIn(buffer) ==
    IF buffer = <<>> THEN 0
    ELSE VideoNodes(Head(buffer).edges) + VideoNodesIn(Tail(buffer))

\* C6: a crawl with limit k of an accessible profile whose intercepted
\* payloads hold n video nodes with shortcodes returns SUCCESS with exactly
\* min(n, k) items, the first min(n, k) extracted, in extraction order, each
\* with a non-empty id; no crawl returns more than k items.
C6_TruncatedToLimit ==
    (crawl.pc = "done") =>
        /\ Len(crawl.out.items) <= crawl.limit
        /\ ("extract" \in crawl.stages /\ VideoNodesIn(crawl.seen) >= 1) =>
              /\ crawl.out.kind = "return"
              /\ crawl.out.status = SUCCESS
              /\ Len(crawl.out.items) = Min(VideoNodesIn(crawl.seen), crawl.limit)
              /\ crawl.out.items = Take(parse_graphql_data(crawl.seen), crawl.limit)
              /\ \A i \in DOMAIN crawl.out.items : crawl.out.items[i].id # ""

\* C7: on every exit path of crawl, a failure while closing included, the tab
\* and the browsing context it opened are closed and the response buffer is
\* empty by the time crawl returns or raises.
C7_ReleasedOnEveryExit ==
    (crawl.pc = "done") =>
        /\ crawl.page # "open"
        /\ crawl.context # "open"
        /\ graphql_data = <<>>

\* C8: with a cached item for id X and an active rate-limit flag for X,
\* fetchItem of a URL resolving to X returns the cached item and makes no
\* fetch attempt.
C8_ServeStale ==
    \A id \in Tasks :
        task[id].stale =>
            /\ task[id].attempts = 0
            /\ task[id].pc = "done" =>
                  task[id].result = GetResult(cache, ItemKey(task[id].shortcode), now)

\* C9: a page that matches both a not-found marker and a private marker is
\* classified NOT_FOUND, never PRIVATE.
C9_NotFoundBeforePrivate ==
    (/\ cls.pc = "done"
     /\ \E i \in DOMAIN not_found_selectors : cls.page.probe[not_found_selectors[i]] = "found"
     /\ \E i \in DOMAIN private_selectors : cls.page.probe[private_selectors[i]] = "found")
    => cls.status = NOT_FOUND /\ cls.message = "Account does not exist"

\* C9 witness: a page classified with both kinds of marker on it, the first
\* not-found probe having found nothing.
C9_Witness_BothMarkers ==
    /\ cls.pc = "done"
    /\ cls.page.probe["nf_sorry"] = "timeout"
    /\ cls.page.probe["nf_broken_link"] = "found"
    /\ cls.page.probe["pv_text"] = "found"
    /\ cls.status = NOT_FOUND

\* a call that ended by leaving the while loop
AtBound == scroll.how \in {"max", "UnboundLocalError"}

\* C10 as stated: on a page whose visible item count never increases and stays
\* below targetCount, run ends after exactly the initial iteration plus 3 stall
\* iterations, and reaches maxIterations only when maxIterations < 4.
C10_CountNeverIncreases ==
    (scroll.pc = "done" /\ ~scroll.count_rose /\ scroll.how # "target") =>
        /\ scroll.how = "stall" => scroll.iters = 1 + StallLimit
        /\ AtBound => scroll.max_scrolls < 1 + StallLimit

\* C10 as amended: on a page whose scroll height is not zero and never
\* changes, and whose visible item count stays below targetCount, run ends
\* after exactly the initial iteration plus 3 stall iterations, and reaches
\* maxIterations only when maxIterations < 4.
C10_HeightNeverChanges ==
    (/\ scroll.pc = "done" /\ scroll.how # "target"
     /\ ~scroll.height_varied
     /\ scroll.iters > 0 => scroll.first_height # 0) =>
        /\ scroll.how = "stall" => scroll.iters = 1 + StallLimit
        /\ scroll.max_scrolls >= 1 + StallLimit => scroll.how = "stall"
        /\ AtBound => scroll.max_scrolls < 1 + StallLimit

\* C10 witness: a call with maxIterations = 4 on a page of constant non-zero
\* height that ended on the stall rule in its fourth iteration.
C10_Witness_FourIterations ==
    /\ scroll.pc = "done" /\ scroll.how = "stall"
    /\ ~scroll.height_varied /\ scroll.first_height # 0
    /\ scroll.max_scrolls = 1 + StallLimit
    /\ scroll.iters = 1 + StallLimit

\* C11: the items of every result are deduplicated: no two items of one
\* result have the same id, whichever strategy produced them.
C11_NoDuplicateIds ==
    (crawl.pc = "done" /\ crawl.out.kind = "return") =>
        \A i, j \in DOMAIN crawl.out.items :
            crawl.out.items[i].id = crawl.out.items[j].id => i = j

C13_OtherErrorFailsFast ==
    \A id \in Tasks :
        task[id].last_error = "other_error" =>
            /\ task[id].pc = "done"
            /\ task[id].result = "ScrapeFailure"

\* the proxy a call is fetching through, or fetched through
CurrentProxy(t) ==
    IF t.pc = "attempt" \/ (t.pc = "done" /\ t.result = "fetched")
    THEN {t.snap[t.idx]} ELSE {}

\* C13 as amended: a fetch attempt that fails with an error matching no
\* rate-limit signature evicts the proxy it used and the call goes on to the
\* next untried proxy of the pool, as for a rate-limit error; the call ends
\* only with the fetched item or, the pool found empty after the cooldown,
\* with the pool-exhausted error.
C13_OtherErrorTriesNext ==
    \A id \in Tasks :
        LET t == task[id]
        IN  t.last_error = "other_error" =>
              /\ t.pc \in {"attempt", "cooldown_after", "done"}
              /\ \A p \in t.tried \ CurrentProxy(t) :
                     p \in evicted /\ p \notin SetOf(pool)
              /\ t.pc = "cooldown_after" => SetOf(t.snap) \subseteq t.tried
              /\ t.pc = "done" => t.result \in {"fetched", PoolExhausted}

\* C13 witness: a call whose first attempt failed with another error and
\* which is about to fetch through the next proxy.
C13_Witness_NextProxyAfterOtherError ==
    \E id \in Tasks :
        /\ task[id].last_error = "other_error"
        /\ task[id].attempts = 1
        /\ task[id].pc = "attempt"
        /\ task[id].idx = 2

\* C14: when a fetch attempt for id X succeeds, the cache afterwards holds the
\* item under the item key of X and no rate-limit flag for X.
C14_SuccessUpdatesCache ==
    \A id \in Tasks :
        (task[id].pc = "done" /\ task[id].result = "fetched") =>
            /\ GetResult(cache, ItemKey(task[id].shortcode), now) # None
            /\ GetResult(cache, RateKey(task[id].shortcode), now) = None

\* C15: when the pool is empty and still empty after the cooldown, the
\* failure reaches the caller of /scrape with status 429.
C15_PoolExhaustedIs429 ==
    \A id \in Tasks :
        (task[id].pc = "done" /\ task[id].result = PoolExhausted) =>
            task[id].response = 429

\* C16: fetchItem on a URL whose path has no non-empty segment fails at once
\* with the invalid-input error: the call ends in the step that starts it, with
\* no fetch attempt and no proxy tried, and the pool, lastUsed and the evicted
\* proxies are as before.
C16_InvalidUrlFailsFast ==
    [][ \A id \in Tasks, path \in Paths :
           (SelectSeq(path, LAMBDA p : p # "") = <<>> /\ Call(id, path)) =>
               /\ task'[id].pc = "done"
               /\ task'[id].result = "ValueError"
               /\ task'[id].response = 400
               /\ task'[id].attempts = 0
               /\ task'[id].tried = {}
               /\ pool' = pool /\ last_proxy' = last_proxy /\ evicted' = evicted
      ]_vars

\* C16 witness: a call on the path "/" that ended with the invalid-input
\* error while the other call was fetching and a proxy had been evicted.
C16_Witness_InvalidUrl ==
    \E id, busy \in Tasks :
        /\ task[id].pc = "done" /\ task[id].result = "ValueError"
        /\ task[id].response = 400 /\ task[id].attempts = 0
        /\ task[busy].pc = "attempt"
        /\ evicted # {}

\* C17: under any interleaving of get, set, delete, sweep, stats and clear
\* calls from several threads every call takes effect atomically: it raises
\* nothing, returns what it would return run alone on the store it found when
\* it started, and leaves the store as it would then.
C17_CacheCallsAtomic ==
    \A th \in Threads :
        /\ thread[th].err = None
        /\ thread[th].pc = "done" => thread[th].ok

\* C17 witness: a sweep has returned, and the other thread, holding the lock,
\* is in the middle of a get that found its entry expired.
C17_Witness_CallsInterleave ==
    \E a, b \in Threads :
        /\ a # b
        /\ thread[a].pc = "done" /\ thread[a].ok
        /\ thread[a].call.op = "cleanup"
        /\ thread[b].pc = "get_del"
        /\ lock = b

\* C18: concurrent crawls on the same scraper are independent: the items a
\* crawl returns are derived only from the payloads intercepted on its own
\* tab, and another crawl finishing never removes payloads captured for a
\* crawl that is still running.
C18_CrawlsIndependent ==
    /\ ("extract" \in crawl.stages /\ crawl.invoked = <<"graphql">>) =>
           crawl.reels = parse_graphql_data(crawl.captured)
    /\ crawl.pc \in {"goto", "classify", "scroll", "extract"} =>
           /\ Len(graphql_data) >= Len(crawl.captured)
           /\ \A i \in DOMAIN crawl.captured :
                  \E j \in DOMAIN graphql_data : graphql_data[j] = crawl.captured[i]

\* the links without the later occurrences of an href, in document order
RECURSIVE DocumentOrder(_, _)
DocumentOrder(links, hrefs) ==
    IF links = <<>> THEN <<>>
    ELSE IF Head(links).href \in hrefs THEN DocumentOrder(Tail(links), hrefs)
    ELSE <<Head(links)>> \o DocumentOrder(Tail(links), hrefs \cup {Head(links).href})

\* C19: for every extraction strategy, the DOM-link fallback included, the
\* items appear in discovery order: the order of their nodes in the payloads
\* or the blob, or of their anchors in the document.
C19_DiscoveryOrder ==
    ("extract" \in crawl.stages) =>
        /\ crawl.invoked = <<"graphql">> => crawl.reels = parse_graphql_data(crawl.seen)
        /\ "dom" \in SetOf(crawl.invoked) =>
               crawl.reels = DomReels(DocumentOrder(crawl.dom, {}))

\* an item for every well-formed video node with a shortcode among the edges
RECURSIVE WellFormed(_)
WellFormed(edges) ==
    IF edges = <<>> THEN <<>>
    ELSE (IF /\ Head(edges).dict /\ Head(edges).ts_ok
             /\ Head(edges).is_video /\ Head(edges).shortcode # ""
          THEN <<[Reel(Head(edges).shortcode, "node")
                     EXCEPT !.thumbnail_url = Head(edges).thumb]>> ELSE <<>>)
         \o WellFormed(Tail(edges))

\* ... in the buffered payloads
RECURSIVE WellFormedIn(_)
WellFormedIn(buffer) ==
    IF buffer = <<>> THEN <<>>
    ELSE (IF Head(buffer).kind = "timeline" THEN WellFormed(Head(buffer).edges) ELSE <<>>)
         \o WellFormedIn(Tail(buffer))

\* C20: a per-node parse failure is swallowed and only that node is skipped:
\* extraction still emits every well-formed video node with a shortcode of a
\* payload or blob holding a malformed node, those after it included.
C20_OnlyMalformedNodeSkipped ==
    ("extract" \in crawl.stages) =>
        /\ WellFormedIn(crawl.seen) # <<>> =>
               crawl.reels = WellFormedIn(crawl.seen)
        /\ (/\ WellFormedIn(crawl.seen) = <<>>
            /\ crawl.shared.kind = "profile"
            /\ WellFormed(crawl.shared.edges) # <<>>) =>
               crawl.reels = WellFormed(crawl.shared.edges)

\* C21: for a page with no not-found marker and no private marker the
\* classifier returns RATE_LIMITED exactly when the path of the final URL has a
\* login or a challenge segment, and SUCCESS for every other final URL,
\* whatever the username.
C21_RateLimitedIffSegment ==
    (cls.pc = "done" /\ \A s \in Selectors : cls.page.probe[s] = "timeout") =>
        /\ cls.status \in {RATE_LIMITED, SUCCESS}
        /\ cls.status = RATE_LIMITED <=>
               (HasSegment(cls.page.url, "login") \/ HasSegment(cls.page.url, "challenge"))

\* the position of the first probe that neither times out, 0 when all do
FirstNonTimeout(page) ==
    LET hits == {i \in DOMAIN ProbeOrder : page.probe[ProbeOrder[i]] # "timeout"}
    IN  IF hits = {} THEN 0 ELSE CHOOSE i \in hits : \A j \in hits : i <= j

\* C22: a probe that finds nothing within its wait is the not-matched outcome
\* and classification goes on to the next check; an unexpected failure of a
\* probe makes the classifier return ERROR, not a status from later checks.
C22_ProbeFaultIsError ==
    (cls.pc = "done") =>
        LET k == FirstNonTimeout(cls.page)
        IN  /\ k = 0 => /\ cls.probed = ProbeOrder
                        /\ cls.status \in {RATE_LIMITED, SUCCESS}
            /\ (k # 0 /\ cls.page.probe[ProbeOrder[k]] = "fault") =>
                   cls.status = ERROR

\* the last operation was op on a key whose entry had expired and was still
\* in the store
OnExpired(op) ==
    /\ cacheOp.op = op
    /\ Len(cacheOp.pre) = 1
    /\ is_expired(cacheOp.pre[1], cacheOp.at)

\* a store in which no key was ever set
NeverSet == [k \in {} |-> None]

\* C23 as stated: on a key whose entry has expired and is not yet purged, get
\* and the boolean of delete give what they give for a key never set.
C23_ExpiredIsAbsent ==
    /\ OnExpired("get") => cacheOp.ret = GetResult(NeverSet, cacheOp.key, cacheOp.at)
    /\ OnExpired("delete") => cacheOp.ret = (cacheOp.key \in DOMAIN NeverSet)

\* C23, amended: on a key whose entry has expired and is not yet purged, get
\* gives what it gives for a key never set and purges the entry; delete
\* reports TRUE, the entry still being stored, and removes it.
C23_ExpiredIsAbsentToGet ==
    /\ OnExpired("get") =>
           /\ cacheOp.ret = GetResult(NeverSet, cacheOp.key, cacheOp.at)
           /\ cacheOp.key \notin DOMAIN cache
    /\ OnExpired("delete") =>
           /\ cacheOp.ret = TRUE
           /\ cacheOp.key \notin DOMAIN cache

C23_Witness_DeleteExpired == OnExpired("delete") /\ cacheOp.ret = TRUE

\* C24: the user-feed endpoint answers 403 for PRIVATE, 404 for NOT_FOUND, 429
\* for RATE_LIMITED, 500 for ERROR, and for SUCCESS 200 with reels_count equal
\* to the number of reels in the response, at most limit.
C24_StatusToHttp ==
    (crawl.pc = "responded") =>
        /\ crawl.result.status = PRIVATE => crawl.response.code = 403
        /\ crawl.result.status = NOT_FOUND => crawl.response.code = 404
        /\ crawl.result.status = RATE_LIMITED => crawl.response.code = 429
        /\ crawl.result.status = ERROR => crawl.response.code = 500
        /\ crawl.result.status = SUCCESS =>
               /\ crawl.response.code = 200
               /\ crawl.response.reels_count = Len(crawl.response.reels)
               /\ crawl.response.reels_count <= crawl.limit

\* C25: every fetch call terminates, whatever its attempts give and whatever
\* other calls do meanwhile: it tries each proxy at most once (every attempt
\* is through a proxy newly added to proxies_tried, never more attempts than
\* the pool ever held), sleeps through at most one cooldown, and reaches its
\* end, where a call none of whose attempts succeeded has raised the
\* pool-exhausted error.
C25_FetchTerminates ==
    /\ [](\A id \in Tasks :
            /\ task[id].attempts + (IF task[id].pc = "attempt" THEN 1 ELSE 0)
                   = Cardinality(task[id].tried)
            /\ task[id].attempts <= Len(InitialPool)
            /\ task[id].cooldowns <= 1
            /\ (task[id].pc = "done" /\ task[id].result \notin {"fetched", "ValueError"})
                   => task[id].result = PoolExhausted /\ task[id].cooldowns = 1)
    /\ \A id \in Tasks : (task[id].pc # "idle") ~> (task[id].pc = "done")

C25_Witness_GaveUpAfterCooldown ==
    \E id \in Tasks : \E busy \in Tasks \ {id} :
        /\ task[id].pc = "done" /\ task[id].result = PoolExhausted
        /\ task[id].attempts >= 1
        /\ task[busy].attempts >= 1

\* C26: under any interleaving of concurrent fetch calls, no attempt starts
\* through a proxy that, at the moment the attempt starts, has been evicted
\* from the pool by this or by another call.
C26_NoAttemptThroughEvicted ==
    [][\A id \in Tasks :
          (\E outcome \in AttemptOutcomes : Attempt(id, outcome)) =>
              /\ task[id].snap[task[id].idx] \in SetOf(pool)
              /\ task[id].snap[task[id].idx] \notin evicted]_vars

C28_BoundedAndReturnsLastCount ==
    (scroll.pc = "done") =>
        /\ scroll.iters <= scroll.max_scrolls
        /\ scroll.scrolls <= scroll.max_scrolls
        /\ scroll.how \in {"target", "stall", "max"}
        /\ scroll.ret = scroll.reel_count

\* C29: an iteration that scrolls with the height equal to the previous one
\* (0 before the first iteration) adds one to the stall counter and waits 1s,
\* 2s, 4s for a counter of 1, 2, 3, never more than 5s; one with another
\* height sets the counter to 0 and waits 0.5s; the loop stops for end of
\* content exactly when the counter reaches 3. Waits are in half seconds.
C29_StallBackoff ==
    /\ [][\A h \in Heights : \A c \in Counts :
            (smart_scroll_iteration(h, c) /\ c < scroll.target_count) =>
                IF h = scroll.previous_height
                THEN /\ scroll'.no_change_count = scroll.no_change_count + 1
                     /\ scroll'.no_change_count = 1 => scroll'.wait = 2
                     /\ scroll'.no_change_count = 2 => scroll'.wait = 4
                     /\ scroll'.no_change_count = 3 => scroll'.wait = 8
                     /\ scroll'.wait <= 10
                     /\ scroll'.how = "stall" <=> scroll'.no_change_count = 3
                     /\ scroll'.pc = "done" <=> scroll'.no_change_count = 3
                ELSE /\ scroll'.no_change_count = 0
                     /\ scroll'.wait = 1
                     /\ scroll'.pc = "loop"]_vars
    /\ [](scroll.how = "stall" => scroll.no_change_count = 3 /\ scroll.iters >= 3)
    /\ [](scroll.pc = "loop" => scroll.no_change_count < 3)

C29_Witness_StallAfterReset ==
    /\ scroll.pc = "done" /\ scroll.how = "stall"
    /\ scroll.height_varied
    /\ scroll.no_change_count = 3 /\ scroll.wait = 8

\* C30: get_next_proxy returns none exactly when the pool is empty; with one
\* proxy in the pool it returns that proxy, even if it is the last used; with
\* more it returns a member of the pool other than the last used; whenever it
\* returns a proxy, that proxy is the last used afterwards, and the pool is
\* unchanged.
C30_NextContract ==
    [][get_next_proxy =>
          /\ nextLog'.called
          /\ (nextLog'.ret = None) <=> (pool = <<>>)
          /\ Len(pool) = 1 => nextLog'.ret = pool[1]
          /\ Len(pool) >= 2 => /\ nextLog'.ret \in SetOf(pool)
                               /\ nextLog'.ret # last_proxy
          /\ nextLog'.ret # None => last_proxy' = nextLog'.ret
          /\ pool' = pool]_vars

C30_Witness_SoleProxyRepeated ==
    /\ nextLog.called
    /\ nextLog.size = 1
    /\ nextLog.ret # None
    /\ nextLog.ret = nextLog.prev
    /\ last_proxy = nextLog.ret
    /\ pool = <<nextLog.ret>>

\* C31: remove_bad_proxy(P) takes P out of the pool and clears the last used
\* proxy exactly when that was P; every other proxy stays, in its place, the
\* last used proxy is unchanged when it was not P, and for a P that is not in
\* the pool nothing changes.
C31_EvictFrame ==
    [][\A P \in Proxies :
          remove_bad_proxy(P) =>
              IF P \in SetOf(pool)
              THEN /\ pool' = SelectSeq(pool, LAMBDA p : p # P)
                   /\ Len(pool') = Len(pool) - 1
                   /\ last_proxy = P => last_proxy' = None
                   /\ last_proxy # P => last_proxy' = last_proxy
              ELSE /\ pool' = pool
                   /\ last_proxy' = last_proxy]_vars

C31_Witness_LastUsedCleared ==
    /\ nextLog.called /\ nextLog.ret # None
    /\ nextLog.ret \in evicted
    /\ last_proxy = None
    /\ Len(pool) = Len(InitialPool) - 1
    /\ \A id \in Tasks : task[id].pc = "idle"

\* C32: in every result a crawl returns, from the method or from the
\* module-level function, the message is absent exactly when the status is
\* SUCCESS, and a result whose status is not SUCCESS has no items.
C32_ResultShape ==
    LET Shaped(r) == /\ (r.message = None) <=> (r.status = SUCCESS)
                     /\ r.status # SUCCESS => r.items = <<>>
                     /\ r.status \in {SUCCESS, PRIVATE, NOT_FOUND, RATE_LIMITED, ERROR}
    IN  /\ (crawl.pc = "done" /\ crawl.out.kind = "return") => Shaped(crawl.out)
        /\ crawl.pc \in {"returned", "responded"} =>
               crawl.result.kind = "return" /\ Shaped(crawl.result)

C32_Witness_FailureAfterExtraction ==
    /\ crawl.pc = "returned"
    /\ crawl.reels # <<>>
    /\ crawl.result.status = ERROR
    /\ crawl.result.message # None
    /\ crawl.result.items = <<>>

\* C33: cleanup_expired removes exactly the entries that are expired at the
\* time of the call and returns their number; every unexpired entry keeps its
\* value, creation time and TTL, and a get of an unexpired key gives the same
\* value before and after.
C33_SweepFrame ==
    [][InMemoryCache_cleanup_expired =>
          /\ DOMAIN cache' = {k \in DOMAIN cache : ~is_expired(cache[k], now)}
          /\ \A k \in DOMAIN cache' :
                 /\ cache'[k].data = cache[k].data
                 /\ cache'[k].created_at = cache[k].created_at
                 /\ cache'[k].ttl_seconds = cache[k].ttl_seconds
                 /\ GetResult(cache', k, now') = GetResult(cache, k, now)
                 /\ GetResult(cache', k, now') = cache[k].data
          /\ cacheOp'.op = "cleanup"
          /\ cacheOp'.ret = Cardinality(DOMAIN cache) - Cardinality(DOMAIN cache')]_vars

C33_Witness_OneSweptOneKept ==
    /\ cacheOp.op = "cleanup"
    /\ cacheOp.ret = 1
    /\ Cardinality(DOMAIN cache) = 1
    /\ \A k \in DOMAIN cache : ~is_expired(cache[k], now) /\ cache[k].created_at < now

====
